---- MODULE Spec2Model ----
(***************************************************************************)
(* Model of the asynchronous RCON client of src/app/src/rcon.py            *)
(* (class RconClient): the packet codec of _send/_verify, the connection   *)
(* handling of connect/_reconnect/_login/_cleanup and the command          *)
(* dispatcher of send/_process.                                            *)
(*                                                                         *)
(* The client runs on one asyncio event loop.  A step of the model is the  *)
(* code a task runs between two suspension points (an await that really    *)
(* suspends), so the interleavings of the model are those of the loop.     *)
(* Strings are sequences of Unicode code points, packets are sequences of  *)
(* bytes (0..255).                                                         *)
(***************************************************************************)
EXTENDS Integers, Sequences, FiniteSets, TLC

VARIABLES
  \* ---- the fields of RconClient (rcon.py 43-51)
  active,        \* self._active
  reader,        \* self._reader : 0 (None) or the number of a transport
  writer,        \* self._writer : 0 (None) or the number of a transport
  cmd_queue,     \* self._cmd_queue : sequence of request numbers
  process_task,  \* self._process_task : FALSE (None) or TRUE (a Task)
  \* ---- the CommandRequests made by send(): request r is (cmds[r], futures[r])
  cmds,          \* the command text of each request
  futures,       \* the future of each request
  \* ---- the execution contexts: the tasks calling connect()/cleanup(), and the worker
  pc,            \* where each context is suspended
  frame,         \* the call each context is in
  attempt,       \* the local "attempt" of _reconnect
  styp,          \* the "type" argument of the _send a context is in
  rd,            \* the transport a context's pending read (or wait_closed) is on
  perr,          \* the error a context's pending _cleanup raises when it is done
  cur,           \* the request the worker dequeued last
  cancelReq,     \* Task.cancel() was called on the worker and not yet delivered
  outcome,       \* how the last call that ended in each context ended
  blocked,       \* the event loop is stuck in a loop that never suspends
  \* ---- the environment: the transports opened so far, and the server behind them
  tr,            \* sequence of transport records
  \* ---- history (not read by the program)
  lastw,         \* the last packet written, and where to
  lastx,         \* the last exchange whose response was read
  nreads,        \* the number of responses read by command exchanges
  resolved,      \* the requests in the order their futures were resolved
  hist,          \* flags of what has happened so far
  \* ---- the codec on its own (specification SpecCodec)
  c_pc, c_in, c_wire, c_pkt, c_out

vars == <<active, reader, writer, cmd_queue, process_task, cmds, futures,
          pc, frame, attempt, styp, rd, perr, cur, cancelReq, outcome, blocked,
          tr, lastw, lastx, nreads, resolved, hist,
          c_pc, c_in, c_wire, c_pkt, c_out>>

clientVars == <<active, reader, writer, cmd_queue, process_task, cmds, futures,
                pc, frame, attempt, styp, rd, perr, cur, cancelReq, outcome, blocked,
                tr, lastw, lastx, nreads, resolved, hist>>

codecVars == <<c_pc, c_in, c_wire, c_pkt, c_out>>

-----------------------------------------------------------------------------
(* Bounds of the model *)

\* longest body of the codec specification, in code points
MaxBodyLen == 2
\* number of send() calls
MaxSends == 2
\* cap of the attempt counter of _reconnect (the code has none)
MaxAttempt == 6

-----------------------------------------------------------------------------
(* Program constants *)

\* the attempt number at which _reconnect calls _cleanup (rcon.py 113)
RetryCeiling == 5
\* the packet type of a login (rcon.py 126)
LoginType == 3
\* the default packet type of _send, a command (rcon.py 171)
CommandType == 2
\* the request id written in every packet (rcon.py 185)
RequestId == 0
\* the response id that reports a failed authentication (rcon.py 241)
SentinelId == -1

-----------------------------------------------------------------------------
(* The packet codec: struct.pack / struct.unpack, str.encode / bytes.decode *)

Byte == 0..255

MinInt32 == -2147483647 - 1

\* struct.pack('<i', n): the four bytes of n in two's complement, low byte first
PackLE32(n) ==
  LET m == IF n >= 0 THEN n ELSE (n + 2147483647) + 1   \* the low 31 bits
      top == (m \div 16777216) + (IF n >= 0 THEN 0 ELSE 128)
  IN  <<m % 256, (m \div 256) % 256, (m \div 65536) % 256, top>>

\* struct.unpack('<i', b)[0], b of four bytes
UnpackLE32(b) ==
  LET low == b[1] + 256 * b[2] + 65536 * b[3] + 16777216 * (b[4] % 128)
  IN  IF b[4] >= 128 THEN (low - 2147483647) - 1 ELSE low

\* the UTF-8 bytes of one code point
Utf8Char(cp) ==
  IF cp < 128 THEN <<cp>>
  ELSE IF cp < 2048 THEN <<192 + (cp \div 64), 128 + (cp % 64)>>
  ELSE IF cp < 65536
       THEN <<224 + (cp \div 4096), 128 + ((cp \div 64) % 64), 128 + (cp % 64)>>
  ELSE <<240 + (cp \div 262144), 128 + ((cp \div 4096) % 64),
         128 + ((cp \div 64) % 64), 128 + (cp % 64)>>

\* str.encode('utf8')
RECURSIVE Utf8Encode(_)
Utf8Encode(s) ==
  IF s = <<>> THEN <<>> ELSE Utf8Char(Head(s)) \o Utf8Encode(Tail(s))

IsCont(b) == b >= 128 /\ b <= 191

\* bytes.decode('utf8'): [ok |-> TRUE, text |-> code points], or ok = FALSE
\* where Python raises UnicodeDecodeError (a ValueError)
RECURSIVE Utf8Decode(_)
Utf8Decode(b) ==
  IF b = <<>> THEN [ok |-> TRUE, text |-> <<>>]
  ELSE
    LET b1 == b[1]
        n == IF b1 < 128 THEN 1
             ELSE IF b1 >= 194 /\ b1 <= 223 THEN 2
             ELSE IF b1 >= 224 /\ b1 <= 239 THEN 3
             ELSE IF b1 >= 240 /\ b1 <= 244 THEN 4
             ELSE 0
    IN  IF n = 0 \/ Len(b) < n \/ (\E i \in 2..n : ~IsCont(b[i]))
        THEN [ok |-> FALSE, text |-> <<>>]
        ELSE
          LET cp == IF n = 1 THEN b1
                    ELSE IF n = 2 THEN (b1 - 192) * 64 + (b[2] - 128)
                    ELSE IF n = 3
                         THEN (b1 - 224) * 4096 + (b[2] - 128) * 64 + (b[3] - 128)
                    ELSE (b1 - 240) * 262144 + (b[2] - 128) * 4096
                         + (b[3] - 128) * 64 + (b[4] - 128)
              bad == \/ (n = 3 /\ cp < 2048)
                     \/ (n = 3 /\ cp >= 55296 /\ cp <= 57343)
                     \/ (n = 4 /\ (cp < 65536 \/ cp > 1114111))
              rest == Utf8Decode(SubSeq(b, n + 1, Len(b)))
          IN  IF bad \/ ~rest.ok
              THEN [ok |-> FALSE, text |-> <<>>]
              ELSE [ok |-> TRUE, text |-> <<cp>> \o rest.text]

\* Python's slice s[i:j] for 0 <= i and any j (a negative j counts from the end)
PySlice(s, i, j) ==
  LET hi == IF j < 0 THEN (IF Len(s) + j < 0 THEN 0 ELSE Len(s) + j)
            ELSE (IF j > Len(s) THEN Len(s) ELSE j)
  IN  SubSeq(s, i + 1, hi)

\* Python's slice s[-2:]
PyLast2(s) == IF Len(s) <= 2 THEN s ELSE SubSeq(s, Len(s) - 1, Len(s))

\* out_packet of _send: id, type, the body in UTF-8, two zero bytes
OutPacket(id, typ, body) ==
  PackLE32(id) \o PackLE32(typ) \o Utf8Encode(body) \o <<0, 0>>

\* what _send writes: out_len + out_packet
EncodeMutCharLen(id, typ, body) ==
  PackLE32(4 + 4 + Len(body) + 2) \o OutPacket(id, typ, body)

Encode(id, typ, body) ==
  PackLE32(Len(OutPacket(id, typ, body))) \o OutPacket(id, typ, body)

\* _verify as a function of the packet: what it raises, or the data it returns.
\*   "struct" : struct.error of struct.unpack('<ii', in_pkt[:8])
\*   "auth"   : ValueError("Incorrect password.") after _cleanup
\*   "pad"    : ValueError("Invalid padding.") after _cleanup
VerifyMutTypeGuard(in_pkt) ==
  IF Len(in_pkt) < 8 THEN [res |-> "struct", data |-> <<>>]
  ELSE
    LET in_id == UnpackLE32(SubSeq(in_pkt, 1, 4))
        in_type == UnpackLE32(SubSeq(in_pkt, 5, 8))
        in_data == PySlice(in_pkt, 8, -2)
        in_padd == PyLast2(in_pkt)
    IN  IF in_id = SentinelId /\ in_type = CommandType
        THEN [res |-> "auth", data |-> <<>>]
        ELSE IF in_padd # <<0, 0>> THEN [res |-> "pad", data |-> <<>>]
        ELSE [res |-> "ok", data |-> in_data]

Verify(in_pkt) ==
  IF Len(in_pkt) < 8 THEN [res |-> "struct", data |-> <<>>]
  ELSE
    LET in_id == UnpackLE32(SubSeq(in_pkt, 1, 4))
        in_data == PySlice(in_pkt, 8, -2)
        in_padd == PyLast2(in_pkt)
    IN  IF in_id = SentinelId THEN [res |-> "auth", data |-> <<>>]
        ELSE IF in_padd # <<0, 0>> THEN [res |-> "pad", data |-> <<>>]
        ELSE [res |-> "ok", data |-> in_data]

\* the end of _send on a packet: _verify, then data.decode('utf8')
\*   "decode" : UnicodeDecodeError (a ValueError, with no _cleanup)
DecodeMutKeepPad(in_pkt) ==
  LET v == Verify(in_pkt)
      d == Utf8Decode(PySlice(in_pkt, 8, Len(in_pkt)))
  IN  IF v.res # "ok" THEN [res |-> v.res, text |-> <<>>]
      ELSE IF ~d.ok THEN [res |-> "decode", text |-> <<>>]
      ELSE [res |-> "ok", text |-> d.text]

Decode(in_pkt) ==
  LET v == Verify(in_pkt)
      d == Utf8Decode(v.data)
  IN  IF v.res # "ok" THEN [res |-> v.res, text |-> <<>>]
      ELSE IF ~d.ok THEN [res |-> "decode", text |-> <<>>]
      ELSE [res |-> "ok", text |-> d.text]

-----------------------------------------------------------------------------
(* The client, the event loop and the server *)

\* the task that calls connect() and cleanup() on the client, one call after
\* the other (main of manage.py); send() is called by any number of tasks
Callers == {"main"}
\* the task of _process (self._process_task)
W == "w"
Ctx == Callers \cup {W}

\* the password of the client, "1234" (manage.py 11)
Password == <<49, 50, 51, 52>>
\* the command text of the r-th send() call: "l" and "é€" in turn (the text
\* of a command decides nothing but the bytes that are written)
CmdText(r) == IF r % 2 = 1 THEN <<108>> ELSE <<233, 8364>>

\* a response payload as the server frames it (the length prefix, read by
\* _read(4), is the length of the payload)
ServerFrame(id, typ, bodyBytes, pad) ==
  PackLE32(id) \o PackLE32(typ) \o bodyBytes \o pad

FrameA == ServerFrame(0, 0, <<65>>, <<0, 0>>)
FrameB == ServerFrame(0, 2, Utf8Encode(<<233, 8364>>), <<0, 0>>)
FrameSentinel == ServerFrame(SentinelId, 2, <<>>, <<0, 0>>)
FrameSentinelBadPad == ServerFrame(SentinelId, 0, <<65>>, <<1, 0>>)
FrameBadPad == ServerFrame(0, 0, <<65>>, <<0, 1>>)
FrameBadUtf8 == ServerFrame(0, 0, <<255>>, <<0, 0>>)
FrameShort == <<0, 0, 0, 0>>

\* the payloads the server may answer a request with
ServerFrames == {FrameA, FrameB, FrameSentinel, FrameSentinelBadPad,
                 FrameBadPad, FrameBadUtf8, FrameShort}

WellFormed(f) == Decode(f).res = "ok"

\* a transport just opened by asyncio.open_connection
\*   st     : "open"; "closing" after close(); "closed" once connection_lost(None)
\*            ran; "reset" once the connection was lost with an error
\*   peer   : "eof" once the server has closed its side
\*   buf    : the payloads received and not yet read
\*   waiter : the context suspended in StreamReader._wait_for_data, or "none"
\*   unans  : the requests the server has received and not yet answered
\*   releases : how many times the socket was released
NewTransport ==
  [st |-> "open", peer |-> "up", buf |-> <<>>, waiter |-> "none",
   unans |-> 0, releases |-> 0]

NoFuture == [st |-> "pending", val |-> <<>>]

\* the state of the client and its environment as one record
St ==
  [active |-> active, reader |-> reader, writer |-> writer,
   cmd_queue |-> cmd_queue, process_task |-> process_task, cmds |-> cmds,
   futures |-> futures, pc |-> pc, frame |-> frame, attempt |-> attempt,
   styp |-> styp, rd |-> rd, perr |-> perr, cur |-> cur,
   cancelReq |-> cancelReq, outcome |-> outcome, blocked |-> blocked,
   tr |-> tr, lastw |-> lastw, lastx |-> lastx, nreads |-> nreads,
   resolved |-> resolved, hist |-> hist]

\* the next state is the record S; once the event loop is stuck in a loop
\* that never suspends, no task and no callback runs any more
Becomes(S) ==
  /\ ~blocked
  /\ active' = S.active /\ reader' = S.reader /\ writer' = S.writer
  /\ cmd_queue' = S.cmd_queue /\ process_task' = S.process_task
  /\ cmds' = S.cmds /\ futures' = S.futures /\ pc' = S.pc /\ frame' = S.frame
  /\ attempt' = S.attempt /\ styp' = S.styp /\ rd' = S.rd /\ perr' = S.perr
  /\ cur' = S.cur /\ cancelReq' = S.cancelReq /\ outcome' = S.outcome
  /\ blocked' = S.blocked /\ tr' = S.tr /\ lastw' = S.lastw
  /\ lastx' = S.lastx /\ nreads' = S.nreads /\ resolved' = S.resolved
  /\ hist' = S.hist
  /\ UNCHANGED codecVars

\*   dispatched : the requests in the order the worker dequeued them
\*   failed     : the requests whose exchange ended in a transport error
\*   started    : how many tasks of _process were created
\*   cancelled  : Task.cancel() was called on the task of _process
InitHist ==
  [xerr |-> FALSE, badframe |-> FALSE, early |-> FALSE, closeCalled |-> FALSE,
   authed |-> {}, connected |-> FALSE,
   dispatched |-> <<>>, failed |-> {}, started |-> 0, cancelled |-> FALSE]

\* no packet written yet, no response read yet
NoWrite == [pkt |-> <<>>, live |-> FALSE]
NoExchange == [typ |-> 0, frame |-> <<>>, res |-> "none", req |-> 0, n |-> 0]

Init ==
  /\ active = FALSE /\ reader = 0 /\ writer = 0
  /\ cmd_queue = <<>> /\ process_task = FALSE
  /\ cmds = <<>> /\ futures = <<>>
  /\ pc = [x \in Ctx |-> IF x = W THEN "none" ELSE "idle"]
  /\ frame = [x \in Ctx |-> "none"]
  /\ attempt = [x \in Ctx |-> 0]
  /\ styp = [x \in Ctx |-> CommandType]
  /\ rd = [x \in Ctx |-> 0]
  /\ perr = [x \in Ctx |-> "none"]
  /\ cur = 0
  /\ cancelReq = FALSE
  /\ outcome = [x \in Ctx |-> <<"none", "none">>]
  /\ blocked = FALSE
  /\ tr = <<>>
  /\ lastw = NoWrite /\ lastx = NoExchange /\ nreads = 0 /\ resolved = <<>>
  /\ hist = InitHist
  /\ c_pc = "off" /\ c_in = <<>> /\ c_wire = <<>> /\ c_pkt = <<>> /\ c_out = <<>>

-----------------------------------------------------------------------------
(* asyncio: streams and transports *)

\* the task suspended in the reader of transport t, if any, is made ready
\* (StreamReader._wakeup_waiter, set_exception, feed_eof)
WakeReader(S, t) ==
  LET w == S.tr[t].waiter
  IN  IF w = "none" THEN S
      ELSE [S EXCEPT !.tr[t].waiter = "none", !.pc[w] = "readrdy"]

\* StreamWriter.write on transport t: the server receives the packet if the
\* transport is open; a closed or lost transport drops it without an error
TransportWrite(S, t, pkt) ==
  LET live == S.tr[t].st = "open"
      S1 == [S EXCEPT !.lastw = [pkt |-> pkt, live |-> live]]
  IN  IF live /\ S.tr[t].peer = "up"
      THEN [S1 EXCEPT !.tr[t].unans = @ + 1]
      ELSE S1

\* StreamWriter.close on transport t: a no-op unless the transport is open
TransportClose(S, t) ==
  IF S.tr[t].st = "open"
  THEN [S EXCEPT !.tr[t].st = "closing", !.tr[t].releases = @ + 1]
  ELSE S

-----------------------------------------------------------------------------
(* The control flow of RconClient, as functions from state to state.  Each   *)
(* runs a context up to its next suspension point.                           *)
(*                                                                           *)
(* Errors: "conn" ConnectionError/OSError, "attr" AttributeError,            *)
(* "runtime" RuntimeError, "struct" struct.error, "auth" ValueError          *)
(* ("Incorrect password."), "pad" ValueError("Invalid padding."), "decode"   *)
(* UnicodeDecodeError, "cancelled" CancelledError.                           *)

\* the locals of the _send and the _cleanup that x has left
Left(S, x) ==
  [S EXCEPT !.styp[x] = CommandType, !.rd[x] = 0, !.perr[x] = "none"]

\* connect() or cleanup() ends in caller c: it returns ("ok") or raises res
EndCall(S, c, res) ==
  [Left(S, c) EXCEPT !.pc[c] = "idle", !.frame[c] = "none", !.attempt[c] = 0,
                     !.outcome[c] = <<S.frame[c], res>>]

\* the task of _process ends: it returns, or an error leaves _process
WorkerExit(S, how) ==
  [Left(S, W) EXCEPT !.pc[W] = "done", !.frame[W] = "none", !.attempt[W] = 0,
                     !.cur = 0, !.cancelReq = FALSE,
                     !.outcome[W] = <<"process", how>>]

\* _reconnect, one pass of "while True": open a connection if there is no
\* writer, else fall through to asyncio.sleep(5)
ReconnectIter(S, x) ==
  IF S.writer = 0
  THEN [Left(S, x) EXCEPT !.pc[x] = "open"]
  ELSE [Left(S, x) EXCEPT !.pc[x] = "sleep"]

\* _reconnect, "except (ConnectionError, OSError)": at attempt == 5 the
\* coroutine self._cleanup(...) is created and dropped, never awaited, so it
\* does nothing; attempt += 1; then asyncio.sleep(5)
ExceptConn(S, x) ==
  [Left(S, x) EXCEPT !.attempt[x] = @ + 1, !.pc[x] = "sleep"]

\* an error that no handler of _process absorbs into its loop is raised in x
RaiseHardMutRequeue(S, x, exc) ==
  CASE S.frame[x] = "connect" ->
         IF exc = "conn" THEN ExceptConn(S, x) ELSE EndCall(S, x, exc)
    [] S.frame[x] = "process" ->
         IF exc = "conn"
         THEN ReconnectIter([S EXCEPT !.frame[W] = "process_reconnect",
                                      !.attempt[W] = 0,
                                      !.cmd_queue = <<S.cur>> \o @,
                                      !.hist.failed = @ \cup {S.cur}], W)
         ELSE WorkerExit(S, exc)
    [] S.frame[x] = "process_reconnect" ->
         IF exc = "conn" THEN ExceptConn(S, x) ELSE WorkerExit(S, exc)
    [] OTHER -> EndCall(S, x, exc)

RaiseHard(S, x, exc) ==
  CASE S.frame[x] = "connect" ->
         IF exc = "conn" THEN ExceptConn(S, x) ELSE EndCall(S, x, exc)
    [] S.frame[x] = "process" ->
         IF exc = "conn"
         THEN ReconnectIter([S EXCEPT !.frame[W] = "process_reconnect",
                                      !.attempt[W] = 0,
                                      !.hist.failed = @ \cup {S.cur}], W)
         ELSE WorkerExit(S, exc)
    [] S.frame[x] = "process_reconnect" ->
         IF exc = "conn" THEN ExceptConn(S, x) ELSE WorkerExit(S, exc)
    [] OTHER -> EndCall(S, x, exc)

\* StreamReader.read on self._reader, as _read calls it
BeginRead(S, x) ==
  LET t == S.reader
  IN  IF S.tr[t].st = "reset" THEN RaiseHard(S, x, "conn")
      ELSE IF S.tr[t].buf # <<>>
      THEN [S EXCEPT !.pc[x] = "readrdy", !.rd[x] = t]
      ELSE IF S.tr[t].peer = "eof" \/ S.tr[t].st = "closed"
      THEN \* read() returns b'' at once, for ever: _read never suspends again
           [S EXCEPT !.pc[x] = "spin", !.blocked = TRUE]
      ELSE IF S.tr[t].waiter # "none" THEN RaiseHard(S, x, "runtime")
      ELSE [S EXCEPT !.tr[t].waiter = x, !.pc[x] = "read", !.rd[x] = t]

\* _send up to its first read: build the packet, write it, read the length
StartSend(S, x, body, typ) ==
  IF S.writer = 0 THEN RaiseHard(S, x, "attr")
  ELSE BeginRead(TransportWrite([S EXCEPT !.styp[x] = typ], S.writer,
                                Encode(RequestId, typ, body)), x)

\* _process: queue.get() returns the head of the queue, _send is called on it
DequeueMutTail(S) ==
  LET n == Len(S.cmd_queue)
      r == S.cmd_queue[n]
  IN  StartSend([S EXCEPT !.cmd_queue = SubSeq(@, 1, n - 1), !.cur = r,
                          !.frame[W] = "process",
                          !.hist.dispatched = Append(@, r)],
                W, S.cmds[r], CommandType)

Dequeue(S) ==
  LET r == Head(S.cmd_queue)
  IN  StartSend([S EXCEPT !.cmd_queue = Tail(@), !.cur = r,
                          !.frame[W] = "process",
                          !.hist.dispatched = Append(@, r)],
                W, S.cmds[r], CommandType)

\* _process at "while self._active"
LoopHead(S) ==
  IF ~S.active THEN WorkerExit(S, "returned")
  ELSE IF S.cmd_queue = <<>>
  THEN [Left(S, W) EXCEPT !.pc[W] = "get", !.frame[W] = "process",
                          !.attempt[W] = 0, !.cur = 0]
  ELSE Dequeue(S)

\* a ValueError or a CancelledError is raised in x
RaiseSoftMutRetry(S, x, exc) ==
  CASE S.frame[x] = "process" ->
         LoopHead(S)
    [] S.frame[x] = "process_reconnect" -> WorkerExit(S, exc)
    [] S.frame[x] = "connect" -> ExceptConn(S, x)
    [] OTHER -> EndCall(S, x, exc)

RaiseSoft(S, x, exc) ==
  CASE S.frame[x] = "process" ->
         LoopHead(S)
    [] S.frame[x] = "process_reconnect" -> WorkerExit(S, exc)
    [] OTHER -> EndCall(S, x, exc)

Raise(S, x, exc) ==
  IF exc \in {"auth", "pad", "decode", "cancelled"}
  THEN RaiseSoft(S, x, exc)
  ELSE RaiseHard(S, x, exc)

\* _cleanup after wait_closed: cancel the task, clear the flag, raise err
FinishCleanupMutResetTask(S, x, err) ==
  LET S1 == [S EXCEPT !.cancelReq = IF S.process_task /\ S.pc[W] # "done"
                                    THEN TRUE ELSE @,
                      !.hist.cancelled = @ \/ S.process_task,
                      !.process_task = FALSE,
                      !.active = FALSE]
  IN  IF err = "none" THEN EndCall(S1, x, "ok") ELSE Raise(S1, x, err)

FinishCleanupMutNoCancel(S, x, err) ==
  IF err = "none" THEN EndCall(S, x, "ok") ELSE Raise(S, x, err)

FinishCleanup(S, x, err) ==
  LET S1 == [S EXCEPT !.cancelReq = IF S.process_task /\ S.pc[W] # "done"
                                    THEN TRUE ELSE @,
                      !.hist.cancelled = @ \/ S.process_task,
                      !.active = FALSE]
  IN  IF err = "none" THEN EndCall(S1, x, "ok") ELSE Raise(S1, x, err)

\* _cleanup up to wait_closed.  wait_closed suspends until connection_lost
\* has run; on a connection lost with an error it raises that error
BeginCleanup(S, x, err) ==
  IF S.writer = 0 THEN FinishCleanup(S, x, err)
  ELSE LET t == S.writer
           S1 == TransportClose(S, t)
       IN  CASE S1.tr[t].st = "closing" ->
                  [S1 EXCEPT !.pc[x] = "wclose", !.rd[x] = t, !.perr[x] = err]
             [] S1.tr[t].st = "closed" -> FinishCleanup(S1, x, err)
             [] OTHER -> Raise(S1, x, "conn")

\* _send returned the decoded text to its caller in x
SendReturnedMutNoResult(S, x, text) ==
  LET S1 == IF S.styp[x] = LoginType
            THEN [S EXCEPT !.hist.authed = @ \cup {S.rd[x]}]
            ELSE S
  IN  CASE S.frame[x] = "connect" ->
             EndCall([S1 EXCEPT !.hist.connected = TRUE], x, "ok")
        [] S.frame[x] = "process" -> LoopHead(S1)
        [] OTHER -> LoopHead([S1 EXCEPT !.frame[W] = "process"])

SendReturned(S, x, text) ==
  LET S1 == IF S.styp[x] = LoginType
            THEN [S EXCEPT !.hist.authed = @ \cup {S.rd[x]}]
            ELSE S
  IN  CASE S.frame[x] = "connect" ->
             \* _login, break, _reconnect and connect return
             EndCall([S1 EXCEPT !.hist.connected = TRUE], x, "ok")
        [] S.frame[x] = "process" ->
             \* future.set_result(result); task_done(); next pass of the loop
             LoopHead([S1 EXCEPT
                         !.futures[S.cur] = [st |-> "result", val |-> text],
                         !.resolved = Append(@, S.cur)])
        [] OTHER ->
             \* _reconnect in the worker returns to _process
             LoopHead([S1 EXCEPT !.frame[W] = "process"])

\* the rest of _send once the packet f is read: _verify and decode
HandleFrame(S, x, f) ==
  LET d == Decode(f)
      isCmd == S.styp[x] = CommandType
      S1 == [S EXCEPT
               !.nreads = IF isCmd THEN @ + 1 ELSE @,
               !.lastx = [typ |-> S.styp[x], frame |-> f, res |-> d.res,
                          req |-> IF isCmd THEN S.cur ELSE 0,
                          n |-> IF isCmd THEN S.nreads + 1 ELSE 0]]
  IN  CASE d.res = "ok" -> SendReturned(S1, x, d.text)
        [] d.res \in {"auth", "pad"} -> BeginCleanup(S1, x, d.res)
        [] OTHER -> Raise(S1, x, d.res)

-----------------------------------------------------------------------------
(* The steps of the client *)

\* connect(): set the flag, create the task of _process once, enter _reconnect
Connect(c) ==
  /\ c \in Callers /\ pc[c] = "idle"
  /\ LET S1 == [St EXCEPT !.active = TRUE,
                          !.process_task = TRUE,
                          !.pc[W] = IF process_task THEN @ ELSE "start",
                          !.hist.started = IF process_task THEN @ ELSE @ + 1,
                          !.frame[c] = "connect",
                          !.attempt[c] = 0]
     IN  Becomes(ReconnectIter(S1, c))

\* cleanup() / _cleanup() called from outside, with no error to raise
Close(c) ==
  /\ c \in Callers /\ pc[c] = "idle"
  /\ LET S1 == [St EXCEPT !.frame[c] = "cleanup",
                          !.hist.closeCalled = TRUE]
     IN  Becomes(BeginCleanup(S1, c, "none"))

\* send(cmd): a new future, (cmd, future) put at the tail of the queue; the
\* calling task then waits for the future
Send ==
  /\ Len(cmds) < MaxSends
  /\ Becomes([St EXCEPT !.cmds = Append(@, CmdText(Len(cmds) + 1)),
                        !.futures = Append(@, NoFuture),
                        !.cmd_queue = Append(@, Len(cmds) + 1),
                        !.hist.early = @ \/ ~hist.connected])

\* asyncio.open_connection succeeds in x: reader and writer are set, and
\* _login sends the password
\* (the first step of the task created by connect() runs before any
\* open_connection can complete: the loop runs ready tasks in order)
OpenOk(x) ==
  /\ pc[x] = "open" /\ pc[W] # "start"
  /\ x = W => ~cancelReq
  /\ LET t == Len(tr) + 1
         S1 == [St EXCEPT !.tr = Append(@, NewTransport),
                          !.reader = t, !.writer = t]
     IN  Becomes(StartSend(S1, x, Password, LoginType))

\* asyncio.open_connection fails in x with an OSError
OpenFail(x) ==
  /\ pc[x] = "open" /\ pc[W] # "start"
  /\ x = W => ~cancelReq
  /\ attempt[x] < MaxAttempt
  /\ Becomes(ExceptConn([St EXCEPT !.hist.xerr = TRUE], x))

\* asyncio.sleep(5) of _reconnect is over in x: the next pass of its loop
Wake(x) ==
  /\ pc[x] = "sleep"
  /\ x = W => ~cancelReq
  /\ Becomes(ReconnectIter(St, x))

\* x, woken in its read, runs on: it takes the packet from the buffer, or,
\* finding none, reads again.  Once the connection is lost with an error the
\* next read() call of _read raises it, whatever the buffer holds
ReadResume(x) ==
  /\ pc[x] = "readrdy"
  /\ x = W => ~cancelReq
  /\ LET t == rd[x]
     IN  IF tr[t].st # "reset" /\ tr[t].buf # <<>>
         THEN Becomes(HandleFrame([St EXCEPT !.tr[t].buf = Tail(@)], x,
                                  Head(tr[t].buf)))
         ELSE Becomes(BeginRead(St, x))

\* x, suspended in wait_closed, runs on once the transport is closed
CleanupResume(x) ==
  /\ pc[x] = "wclose"
  /\ x = W => ~cancelReq
  /\ tr[rd[x]].st = "closed"
  /\ Becomes(FinishCleanup(St, x, perr[x]))

\* the first step of the task of _process
WorkerStart ==
  /\ pc[W] = "start" /\ ~cancelReq
  /\ Becomes(LoopHead([St EXCEPT !.frame[W] = "process"]))

\* the worker, suspended in queue.get(), is given the head of the queue
WorkerGet ==
  /\ pc[W] = "get" /\ ~cancelReq
  /\ cmd_queue # <<>>
  /\ Becomes(Dequeue(St))

\* the cancellation of the task of _process is delivered at its await
WorkerCancelled ==
  /\ cancelReq
  /\ pc[W] \in {"start", "get", "read", "readrdy", "sleep", "open", "wclose"}
  /\ LET S0 == [St EXCEPT !.cancelReq = FALSE]
         S1 == IF pc[W] = "read"
               THEN [S0 EXCEPT !.tr[rd[W]].waiter = "none"]
               ELSE S0
     IN  IF pc[W] = "start"
         THEN Becomes(WorkerExit(S1, "cancelled"))
         ELSE Becomes(Raise(S1, W, "cancelled"))

-----------------------------------------------------------------------------
(* The steps of the event loop and of the server *)

\* connection_lost(None) runs for a transport that was closed: the reader is
\* fed EOF, the close waiter is resolved
ConnectionLost(t) ==
  /\ t \in DOMAIN tr /\ tr[t].st = "closing"
  /\ Becomes(WakeReader([St EXCEPT !.tr[t].st = "closed"], t))

\* the server answers the oldest unanswered request on t with the payload f
ServerRespond(t, f) ==
  /\ t \in DOMAIN tr /\ tr[t].st = "open" /\ tr[t].peer = "up"
  /\ tr[t].unans > 0
  /\ Becomes(WakeReader([St EXCEPT !.tr[t].buf = Append(@, f),
                                   !.tr[t].unans = @ - 1,
                                   !.hist.badframe = @ \/ ~WellFormed(f)], t))

\* the connection of t is reset: the reader and the close waiter hold the error
ServerReset(t) ==
  /\ t \in DOMAIN tr /\ tr[t].st = "open"
  /\ Becomes(WakeReader([St EXCEPT !.tr[t].st = "reset",
                                   !.hist.xerr = TRUE], t))

\* the server closes its side of t: the reader is fed EOF
ServerEof(t) ==
  /\ t \in DOMAIN tr /\ tr[t].st = "open" /\ tr[t].peer = "up"
  /\ Becomes(WakeReader([St EXCEPT !.tr[t].peer = "eof",
                                   !.hist.xerr = TRUE], t))

Next ==
  \/ \E c \in Callers : Connect(c)
  \/ \E c \in Callers : Close(c)
  \/ Send
  \/ \E x \in Ctx : OpenOk(x)
  \/ \E x \in Ctx : OpenFail(x)
  \/ \E x \in Ctx : Wake(x)
  \/ \E x \in Ctx : ReadResume(x)
  \/ \E x \in Ctx : CleanupResume(x)
  \/ WorkerStart
  \/ WorkerGet
  \/ WorkerCancelled
  \/ \E t \in DOMAIN tr : ConnectionLost(t)
  \/ \E t \in DOMAIN tr, f \in ServerFrames : ServerRespond(t, f)
  \/ \E t \in DOMAIN tr : ServerReset(t)
  \/ \E t \in DOMAIN tr : ServerEof(t)

Spec == Init /\ [][Next]_vars

-----------------------------------------------------------------------------
(* The codec on its own: encode a packet, read it back, decode it *)

\* the code points of the bodies: "A", "é", "€" and an emoji
CodePoints == {65, 233, 8364, 128512}

RECURSIVE SeqsUpTo(_, _)
SeqsUpTo(S, n) ==
  IF n = 0 THEN {<<>>}
  ELSE SeqsUpTo(S, n - 1)
       \cup {Append(s, e) : s \in {q \in SeqsUpTo(S, n - 1) : Len(q) = n - 1}, e \in S}

CodecIds == {0, 1, SentinelId, -2, 256, 2147483647, MinInt32}
CodecTypes == {CommandType, LoginType}

InitCodec ==
  /\ active = FALSE /\ reader = 0 /\ writer = 0
  /\ cmd_queue = <<>> /\ process_task = FALSE
  /\ cmds = <<>> /\ futures = <<>>
  /\ pc = [x \in Ctx |-> IF x = W THEN "none" ELSE "idle"]
  /\ frame = [x \in Ctx |-> "none"]
  /\ attempt = [x \in Ctx |-> 0]
  /\ styp = [x \in Ctx |-> CommandType]
  /\ rd = [x \in Ctx |-> 0]
  /\ perr = [x \in Ctx |-> "none"]
  /\ cur = 0
  /\ cancelReq = FALSE
  /\ outcome = [x \in Ctx |-> <<"none", "none">>]
  /\ blocked = FALSE
  /\ tr = <<>>
  /\ lastw = NoWrite /\ lastx = NoExchange /\ nreads = 0 /\ resolved = <<>>
  /\ hist = InitHist
  /\ c_pc = "in"
  /\ c_in \in [id : CodecIds, typ : CodecTypes, body : SeqsUpTo(CodePoints, MaxBodyLen)]
  /\ c_wire = <<>> /\ c_pkt = <<>> /\ c_out = <<>>

\* _send 185-187: the packet and its length prefix
CodecEncode ==
  /\ c_pc = "in"
  /\ c_wire' = Encode(c_in.id, c_in.typ, c_in.body)
  /\ c_pc' = "wire"
  /\ UNCHANGED <<c_in, c_pkt, c_out>>
  /\ UNCHANGED clientVars

\* _send 190-191: read the length, then that many bytes
CodecRead ==
  /\ c_pc = "wire"
  /\ LET in_length == UnpackLE32(SubSeq(c_wire, 1, 4))
     IN  c_pkt' = SubSeq(c_wire, 5, 4 + in_length)
  /\ c_pc' = "pkt"
  /\ UNCHANGED <<c_in, c_wire, c_out>>
  /\ UNCHANGED clientVars

\* _send 194-196: _verify and decode
CodecDecode ==
  /\ c_pc = "pkt"
  /\ c_out' = Decode(c_pkt)
  /\ c_pc' = "out"
  /\ UNCHANGED <<c_in, c_wire, c_pkt>>
  /\ UNCHANGED clientVars

NextCodec == CodecEncode \/ CodecRead \/ CodecDecode

SpecCodec == InitCodec /\ [][NextCodec]_vars

-----------------------------------------------------------------------------
(* Properties *)

Main == "main"

\* a payload with a complete header whose request id is the sentinel
HasSentinel(f) == Len(f) >= 8 /\ UnpackLE32(SubSeq(f, 1, 4)) = SentinelId

\* the last response read was read for a command, and _send ended in res
LastCmd(res) == lastx.typ = CommandType /\ lastx.res = res

\* the last response read was read for a login, and _send ended in res
LastLogin(res) == lastx.typ = LoginType /\ lastx.res = res

\* C1: bounded retry.  While no transport could be opened, _reconnect makes
\* at most RetryCeiling attempts: a context still in the retry loop has failed
\* fewer than RetryCeiling times (the failure that reaches the ceiling ends
\* the call with a ConnectionError).
C1_BoundedRetry ==
  \A x \in Ctx :
    (frame[x] \in {"connect", "process_reconnect"} /\ writer = 0)
      => attempt[x] < RetryCeiling

\* the client was connected before every send(), was not closed, its
\* transport has not failed and every response was well-formed
Nominal == ~hist.xerr /\ ~hist.badframe /\ ~hist.early /\ ~hist.closeCalled

\* C2: FIFO.  On a connected client, with no transport failure and only
\* well-formed responses, the futures are resolved in the order of the
\* send() calls, the n-th response read for a command goes to the n-th
\* request enqueued, and that request's result is the text of that response.

C2_Fifo ==
  Nominal =>
    /\ resolved = [i \in 1..Len(resolved) |-> i]
    /\ lastx.typ = CommandType =>
         /\ lastx.n = lastx.req
         /\ lastx.res = "ok"
         /\ futures[lastx.req] = [st |-> "result", val |-> Decode(lastx.frame).text]

C2_Witness ==
  /\ Nominal
  /\ resolved = <<1, 2>>
  /\ futures[1].val = <<65>>
  /\ futures[2].val = <<233, 8364>>

\* C3: one exchange at a time.  On every transport, at most one request is
\* written and not yet answered and read.
C3_OneExchange ==
  \A t \in DOMAIN tr : tr[t].unans + Len(tr[t].buf) <= 1

\* C4: padding validation is scoped to one exchange.  After a command's
\* response with bad padding, on a client that connect() has connected, with
\* no close() and no transport failure, the transport is still open and the
\* worker still runs.
C4_PaddingScoped ==
  (LastCmd("pad") /\ hist.connected /\ ~hist.early /\ ~hist.closeCalled /\ ~hist.xerr)
    => (tr[writer].st = "open" /\ pc[W] # "done")

\* C5: once the worker has dealt with a command's response with bad padding,
\* on a client that connect() has connected, with no close() and no
\* transport failure, the future of that command is rejected.
C5_RejectsFuture ==
  (/\ LastCmd("pad") /\ pc[W] = "done"
   /\ hist.connected /\ ~hist.early /\ ~hist.closeCalled /\ ~hist.xerr)
    => futures[lastx.req].st = "rejected"

\* C6: authentication sentinel.  A response whose request id is -1 makes
\* _send end in the authentication error, whatever its type, body and
\* padding: no login succeeds on it and no future is resolved from it.
C6_Sentinel ==
  (lastx.res # "none" /\ HasSentinel(lastx.frame)) =>
    /\ lastx.res = "auth"
    /\ lastx.typ = LoginType => (hist.authed = {} /\ ~hist.connected)
    /\ lastx.typ = CommandType => futures[lastx.req].st = "pending"

C6_Witness ==
  /\ lastx.frame = FrameSentinelBadPad
  /\ lastx.typ = CommandType
  /\ pc[W] = "done"

\* connect() is in the _cleanup of a failed authentication, the transport
\* already closing
InAuthCleanup ==
  pc[Main] = "wclose" /\ perr[Main] = "auth" /\ tr[rd[Main]].st # "open"

\* connect() has raised the authentication error, after the cleanup: the
\* client is inactive, the transport closed, the worker cancelled or ended
AuthRaised ==
  /\ pc[Main] = "idle" /\ outcome[Main] = <<"connect", "auth">>
  /\ ~active
  /\ tr[writer].st \in {"closing", "closed"}
  /\ pc[W] = "done" \/ cancelReq

\* C7: an authentication failure of the login of connect() is not retried.
\* From the failed login on, no connection is being opened and no login is
\* in flight; the step that reads the failing response puts connect() into
\* _cleanup or makes it raise the authentication error; the step that ends
\* that _cleanup makes it raise the error; and whenever connect() has raised
\* it, the client is inactive, the transport closed and the worker cancelled.
C7_AuthNotRetried ==
  /\ [](LastLogin("auth") =>
         /\ \A x \in Ctx : pc[x] # "open"
         /\ \A x \in Ctx : ~(pc[x] \in {"read", "readrdy"} /\ styp[x] = LoginType))
  /\ []((pc[Main] = "idle" /\ outcome[Main] = <<"connect", "auth">>) => AuthRaised)
  /\ [][(lastx' # lastx /\ lastx'.typ = LoginType /\ lastx'.res = "auth")
          => (InAuthCleanup' \/ AuthRaised')]_vars
  /\ [][(InAuthCleanup /\ pc'[Main] # "wclose") => AuthRaised']_vars

C7_Witness ==
  /\ LastLogin("auth")
  /\ outcome[Main] = <<"connect", "auth">>
  /\ pc[Main] = "idle"
  /\ pc[W] = "done"

\* C8: cleanup is idempotent.  A cleanup() call never raises, and no
\* transport is released more than once.
C8_CleanupNeverRaises ==
  /\ outcome[Main][1] = "cleanup" => outcome[Main][2] = "ok"
  /\ \A t \in DOMAIN tr : tr[t].releases <= 1

\* C9: codec round trip.  For every request id but the sentinel, every type
\* and every body, the packet read back from the encoded frame passes
\* _verify and decodes to the body, and its data bytes are the body's bytes.
C9_RoundTrip ==
  (c_pc = "out" /\ c_in.id # SentinelId) =>
    /\ c_out = [res |-> "ok", text |-> c_in.body]
    /\ Verify(c_pkt).data = Utf8Encode(c_in.body)

C9_Witness ==
  /\ c_pc = "out"
  /\ c_in.id = MinInt32
  /\ c_in.body = <<8364, 128512>>
  /\ c_out.text = c_in.body

\* C10: the flag is set only after a successful login on the current
\* transport.
C10_ActiveOnlyAfterLogin ==
  active => (writer # 0 /\ writer \in hist.authed)

\* the worker is in the _reconnect that follows a transport error of an
\* exchange
InWorkerReconnect == frame[W] = "process_reconnect"

\* the requests are dispatched in the order they were enqueued, none skipped
FifoDispatch == hist.dispatched = [i \in 1..Len(hist.dispatched) |-> i]

\* C11: reconnection in the worker ends and the queue is served in order.
\* On a client that connect() has connected and nobody has closed, the commands are dispatched in the order of the queue, and the _reconnect
\* the worker entered on a transport error does not repeat for ever: a pass
\* of its loop that starts when the sleep is over changes the state (it
\* opens a connection), so that the loop can end once the server is back.
C11_ReconnectResumes ==
  /\ FifoDispatch
  /\ (/\ InWorkerReconnect /\ pc[W] = "sleep"
      /\ hist.connected /\ ~hist.early /\ ~hist.closeCalled)
       => ReconnectIter(St, W) # St

\* how many times request r was dispatched (its packet written)
Dispatches(r) ==
  Cardinality({i \in 1..Len(hist.dispatched) : hist.dispatched[i] = r})

\* C12: a command whose exchange failed with a transport error is abandoned.
\* Its packet was written once and never again, it is not in the queue, and
\* its future is pending: neither a result nor an error is set.
C12_FailedAbandoned ==
  \A r \in hist.failed :
    /\ Dispatches(r) = 1
    /\ \A i \in 1..Len(cmd_queue) : cmd_queue[i] # r
    /\ futures[r] = NoFuture

\* the first command failed, a second one was sent after it, and the worker
\* has been through a pass of its _reconnect since
C12_Witness ==
  /\ hist.failed = {1}
  /\ cmd_queue = <<2>>
  /\ InWorkerReconnect /\ pc[W] = "sleep"

\* C13: the worker is started at most once.  One task of _process at most
\* was ever created, and self._process_task is set exactly when it was.
C13_WorkerStartedOnce ==
  /\ hist.started <= 1
  /\ process_task <=> hist.started = 1

\* a connect() is running after a cleanup() that cancelled the task, the
\* task has ended, and still one task was created in all
C13_Witness ==
  /\ frame[Main] = "connect"
  /\ hist.cancelled /\ pc[W] = "done"
  /\ hist.started = 1

\* C14: the exact-length read ends.  _read does not loop for ever on a
\* stream that returns zero bytes: no context is in the loop of _read with
\* read() returning b'' at once on every pass, the event loop stuck in it.
C14_ReadTerminates ==
  /\ ~blocked
  /\ \A x \in Ctx : pc[x] # "spin"

\* the last call of main was a cleanup() that ran to its end, and main has
\* called nothing since: the client is closed, with no later connect()
ClosedIdle == pc[Main] = "idle" /\ outcome[Main] = <<"cleanup", "ok">>

\* C15: the requests in the queue of a closed client are left alone.  No
\* step taken while the client is closed removes a request from the queue
\* or changes the order of the queue, and the future of every request in
\* the queue is pending before and after the step.
C15_QueueLeftAtClose ==
  [][ClosedIdle =>
       /\ Len(cmd_queue') >= Len(cmd_queue)
       /\ SubSeq(cmd_queue', 1, Len(cmd_queue)) = cmd_queue
       /\ \A i \in 1..Len(cmd_queue) :
            /\ futures[cmd_queue[i]] = NoFuture
            /\ futures'[cmd_queue[i]] = NoFuture]_vars

\* the client, connected before any send(), is closed; two requests were
\* enqueued while cleanup() waited for the transport to close, the worker
\* was cancelled in queue.get() and has left its loop, and both requests
\* are still in the queue
C15_Witness ==
  /\ ClosedIdle
  /\ hist.connected /\ ~hist.early /\ ~hist.badframe
  /\ hist.cancelled /\ outcome[W] = <<"process", "returned">>
  /\ hist.dispatched = <<>>
  /\ cmd_queue = <<1, 2>>

\* the texts the client has had to send so far: the password, and the
\* commands of the requests dispatched
TextsSent ==
  {Password} \cup {cmds[hist.dispatched[i]] : i \in 1..Len(hist.dispatched)}

\* p is the frame of a request of type typ with the text body: the length
\* prefix counts id, type, body bytes and padding; then id, type, the UTF-8
\* bytes of the text and two zero bytes
IsRequestFrame(p, typ, body) ==
  LET n == Len(Utf8Encode(body))
  IN  /\ Len(p) = 4 + 4 + 4 + n + 2
      /\ UnpackLE32(SubSeq(p, 1, 4)) = 4 + 4 + n + 2
      /\ SubSeq(p, 1, 4) = <<(10 + n) % 256, (10 + n) \div 256, 0, 0>>
      /\ UnpackLE32(SubSeq(p, 5, 8)) = RequestId
      /\ UnpackLE32(SubSeq(p, 9, 12)) = typ
      /\ SubSeq(p, 13, 12 + n) = Utf8Encode(body)
      /\ SubSeq(p, 13 + n, 14 + n) = <<0, 0>>

\* C16: wire framing.  Every packet the client writes is the frame of a
\* Login request (type 3) with the password or of a Command request (type 2)
\* with the text of a dispatched command: a 4-byte little-endian length
\* prefix equal to 4 + 4 + len(UTF-8 body) + 2, the id, the type, the body
\* bytes and two zero bytes.
C16_WireFraming ==
  lastw.pkt # <<>> =>
    \/ IsRequestFrame(lastw.pkt, LoginType, Password)
    \/ \E i \in 1..Len(hist.dispatched) :
         IsRequestFrame(lastw.pkt, CommandType, cmds[hist.dispatched[i]])

\* the command of two characters and five bytes was written on an open
\* transport, with the length prefix 15
C16_Witness ==
  /\ lastw.live
  /\ IsRequestFrame(lastw.pkt, CommandType, <<233, 8364>>)
  /\ lastw.pkt[1] = 15 /\ Len(lastw.pkt) = 19

\* connect() was called again after a connect() that succeeded, with no
\* cleanup() between, on a client that holds a transport handle: its _reconnect sleeps without an attempt
\* having failed
ConnectWithHandle ==
  /\ hist.connected /\ ~hist.closeCalled /\ writer # 0
  /\ frame[Main] = "connect" /\ pc[Main] = "sleep" /\ attempt[Main] = 0

\* C17: connect() on a client that holds a transport handle returns.  It
\* opens no further transport (so sends no further Login), and its
\* _reconnect does not repeat for ever: the pass of the loop that starts
\* when the sleep is over changes the state (it leaves the loop).
C17_ConnectWithHandleReturns ==
  /\ Len(tr) <= 1
  /\ ConnectWithHandle => ReconnectIter(St, Main) # St

\* cleanup() was called on a client that connect() had connected, in a
\* session with no failure and no malformed response, and has cancelled the
\* task of _process
WorkerCancelledByClose ==
  /\ hist.cancelled /\ hist.closeCalled
  /\ hist.connected /\ ~hist.early /\ ~hist.badframe /\ ~hist.xerr

\* C19: a cancelled worker stops for good.  Once cleanup() has cancelled the
\* task of _process, no step dequeues a request: nothing is dispatched and
\* the queue loses nothing, whatever is called afterwards.
C19_WorkerStopsAfterClose ==
  [][WorkerCancelledByClose =>
       /\ hist.dispatched' = hist.dispatched
       /\ Len(cmd_queue') >= Len(cmd_queue)]_vars

\* the last packet written is a Command request
LastWriteIsCommand ==
  Len(lastw.pkt) >= 12 /\ UnpackLE32(SubSeq(lastw.pkt, 9, 12)) = CommandType

\* C20: no command before the login.  A Command packet is written only to a
\* transport on which a login has succeeded, and the worker never ends in
\* the AttributeError of a write on self._writer = None.
C20_NoCommandBeforeLogin ==
  /\ LastWriteIsCommand => (writer # 0 /\ writer \in hist.authed)
  /\ outcome[W] # <<"process", "attr">>

\* how far request q is from its result: 3 in the queue, 2 written and
\* waiting for the response, 1 with the response received and the worker
\* ready to run, 0 resolved; 4 if it is pending and nobody serves it
Stage(q) ==
  IF futures[q].st = "result" THEN 0
  ELSE IF q = cur /\ pc[W] = "readrdy" THEN 1
  ELSE IF q = cur /\ pc[W] = "read" THEN 2
  ELSE IF \E i \in 1..Len(cmd_queue) : cmd_queue[i] = q THEN 3
  ELSE 4

\* the work left before request r has its result: its own stage and those
\* of the requests enqueued before it
RECURSIVE Remaining(_)
Remaining(r) == IF r = 0 THEN 0 ELSE Stage(r) + Remaining(r - 1)

\* the worker can run on, or the server has a request of the worker to answer
CanProgress ==
  /\ ~blocked
  /\ \/ pc[W] = "get" /\ cmd_queue # <<>> /\ ~cancelReq
     \/ pc[W] = "readrdy" /\ ~cancelReq
     \/ /\ pc[W] = "read"
        /\ tr[rd[W]].st = "open" /\ tr[rd[W]].peer = "up" /\ tr[rd[W]].unans > 0

\* a step of the worker, or the server answering with a well-formed frame
ServeStep ==
  \/ WorkerGet
  \/ ReadResume(W)
  \/ \E t \in DOMAIN tr : ServerRespond(t, FrameA) \/ ServerRespond(t, FrameB)

\* C18: every send() returns, with the decoded body of its response.  On a
\* client connected before the send() calls, with no transport failure, no
\* cleanup() and only well-formed responses:
\*  - a request whose future is pending is in the queue or is being served,
\*    and the worker can run on or the server has its request to answer;
\*  - every step of the worker, and every answer of the server, brings each
\*    pending request nearer to its result, and no step takes it further;
\*  - a result, once set, does not change, and it is the UTF-8 decoding of
\*    the response read for the command without its 8 header bytes and its
\*    2 padding bytes.
\* So under a loop that runs the worker and a server that answers, every
\* pending send() is resolved after finitely many steps.
C18_SendReturns ==
  /\ [](Nominal =>
         \A r \in DOMAIN futures :
           futures[r].st # "result" => (Stage(r) \in 1..3 /\ CanProgress))
  /\ [][Nominal' =>
         \A r \in DOMAIN futures :
           futures[r].st # "result" =>
             /\ Remaining(r)' <= Remaining(r)
             /\ ServeStep => Remaining(r)' < Remaining(r)]_vars
  /\ [][\A r \in DOMAIN futures :
          futures[r].st = "result" => futures'[r] = futures[r]]_vars
  /\ []((Nominal /\ lastx.typ = CommandType) =>
         futures[lastx.req] =
           [st |-> "result",
            val |-> Utf8Decode(SubSeq(lastx.frame, 9, Len(lastx.frame) - 2)).text])

\* both requests were served in a nominal session; the second got the
\* response "\u00e9\u20ac" of five body bytes
C18_Witness ==
  /\ Nominal
  /\ Len(futures) = 2 /\ Remaining(2) = 0
  /\ lastx.req = 2 /\ lastx.frame = FrameB
  /\ futures[2].val = <<233, 8364>>

\* the last response read for a command is too short to hold the 8 header
\* bytes and the 2 padding bytes, on a client that connect() has connected,
\* with no cleanup() and no transport failure
ShortCommandResponse ==
  /\ lastx.typ = CommandType /\ lastx.res # "none"
  /\ Len(lastx.frame) < 10
  /\ hist.connected /\ ~hist.early /\ ~hist.closeCalled /\ ~hist.xerr

\* C21: a response too short for header and padding is malformed framing of
\* its exchange only.  After it the worker has not ended: the task of
\* _process still runs its loop and the client is still active.
C21_ShortFrameScoped ==
  ShortCommandResponse => (pc[W] # "done" /\ active)

====
